---- MODULE Spec2Model ----
(***************************************************************************)
(* Model of kardiamobile-6l-ecg-convert-pdf-to-edf.py.                     *)
(*                                                                         *)
(* Units.  The program computes on floats; the model uses fixed point:     *)
(*   page coordinates  in 1/1000 PDF point   (0.001 -> 1, 500 -> 500000)   *)
(*   stroke widths     in 1/1000             (0.35  -> 350)                *)
(*   voltages          in microvolts         (0.1 mV -> 100)               *)
(* A point is <<x, y>>.  A drawing item is [op, p1, p2]; op "l" is a line, *)
(* any other op (curve, rectangle) is skipped by the program.  A path is   *)
(* [color, width, items]; Python's None is the empty tuple <<>> for color  *)
(* and for width, a present width w is <<w>>.                              *)
(***************************************************************************)
EXTENDS Integers, Sequences, FiniteSets, TLC

\* ------------------------------------------------------------ constants
Black == <<0, 0, 0>>
Red == <<1000, 0, 0>>
None == <<>>

WidthLo == 350
WidthHi == 450
MinBaselineItems == 6
HorizEps == 10
MinSpan == 500000
NumBaselines == 6
NumLeads == 6
MinWaveItems == 50
PointEps == 1
MaxDist == 50000
FirstPage == 1
LastPage == 4
DedupEps == 10
CAL_PT_PER_MV == 28346
Margin == 100
DigitalMin == -32768
DigitalMax == 32767

Leads == 0 .. (NumLeads - 1)

Abs(n) == IF n < 0 THEN 0 - n ELSE n
X(p) == p[1]
Y(p) == p[2]
Line(a, b) == [op |-> "l", p1 |-> a, p2 |-> b]
Curve(a, b) == [op |-> "c", p1 |-> a, p2 |-> b]

\* ------------------------------------------------------------ extract_baselines
\* a line of exactly 500 pt taken as long enough
IsLongHorizontalInclusive(item) ==
    /\ item.op = "l"
    /\ Abs(Y(item.p1) - Y(item.p2)) < HorizEps
    /\ Abs(X(item.p2) - X(item.p1)) >= MinSpan

\* the test of line 46 on one item
IsLongHorizontal(item) ==
    /\ item.op = "l"
    /\ Abs(Y(item.p1) - Y(item.p2)) < HorizEps
    /\ Abs(X(item.p2) - X(item.p1)) > MinSpan

\* the loop of lines 42-47: p1.y of every qualifying item, in item order
y_values(items) ==
    LET long == SelectSeq(items, IsLongHorizontal)
    IN  [k \in 1 .. Len(long) |-> Y(long[k].p1)]

\* the condition of lines 35-40
IsBaselineCandidate(path) ==
    /\ path.color = Black
    /\ path.width # None
    /\ WidthLo < path.width[1]
    /\ path.width[1] < WidthHi
    /\ Len(path.items) >= MinBaselineItems

NoBaselines == [none |-> TRUE, ys |-> <<>>]

RECURSIVE extract_baselines_from(_, _)
extract_baselines_from(paths, k) ==
    IF k > Len(paths) THEN NoBaselines
    ELSE IF /\ IsBaselineCandidate(paths[k])
            /\ Len(y_values(paths[k].items)) >= NumBaselines
         THEN [none |-> FALSE,
               ys |-> SubSeq(y_values(paths[k].items), 1, NumBaselines)]
         ELSE extract_baselines_from(paths, k + 1)

extract_baselines(paths) == extract_baselines_from(paths, 1)

\* ------------------------------------------------------------ extract_ecg_paths_from_page
\* the color test left out
IsWaveformPathAnyColor(path) ==
    ~ \/ path.width = None
      \/ ~ (WidthLo < path.width[1] /\ path.width[1] < WidthHi)
      \/ Len(path.items) < MinWaveItems

\* the negation of the skip condition of lines 67-73
IsWaveformPath(path) ==
    ~ \/ path.color # Black
      \/ path.width = None
      \/ ~ (WidthLo < path.width[1] /\ path.width[1] < WidthHi)
      \/ Len(path.items) < MinWaveItems

\* lines 78-86: the loop body for one item
AddItem(points, item) ==
    IF item.op # "l" THEN points
    ELSE LET p1 == item.p1
             p2 == item.p2
             keep1 == \/ points = <<>>
                      \/ Abs(X(points[Len(points)]) - X(p1)) > PointEps
                      \/ Abs(Y(points[Len(points)]) - Y(p1)) > PointEps
         IN  Append(IF keep1 THEN Append(points, p1) ELSE points, p2)

\* lines 76-86: the loop over items lo..hi, run as the loop over the first
\* half followed by the loop over the second half (the test on `first` only
\* makes the first half be evaluated before the second)
RECURSIVE ExtractPointsRange(_, _, _, _)
ExtractPointsRange(items, lo, hi, points) ==
    IF lo > hi THEN points
    ELSE IF lo = hi THEN AddItem(points, items[lo])
    ELSE LET mid == (lo + hi) \div 2
             first == ExtractPointsRange(items, lo, mid, points)
         IN  IF Len(first) >= 0
             THEN ExtractPointsRange(items, mid + 1, hi, first)
             ELSE first

ExtractPoints(items) == ExtractPointsRange(items, 1, Len(items), <<>>)

RECURSIVE SumY(_, _, _)
SumY(points, lo, hi) ==
    IF lo > hi THEN 0
    ELSE IF lo = hi THEN Y(points[lo])
    ELSE SumY(points, lo, (lo + hi) \div 2) + SumY(points, (lo + hi) \div 2 + 1, hi)

\* |y_center - bl| of line 96, times len(points): y_center is the mean of
\* the points' y (line 92), kept exact as sum / n
DistTimesN(points, bl) == Abs(SumY(points, 1, Len(points)) - Len(points) * bl)

\* the loop of lines 93-99; best_lead = -1 stands for min_dist = inf
RECURSIVE NearestFrom(_, _, _, _)
NearestFrom(points, bls, k, best) ==
    IF k > Len(bls) THEN best
    ELSE LET dist == DistTimesN(points, bls[k])
         IN  IF best.best_lead = -1 \/ dist < best.min_dist
             THEN NearestFrom(points, bls, k + 1, [best_lead |-> k - 1, min_dist |-> dist])
             ELSE NearestFrom(points, bls, k + 1, best)

Nearest(points, bls) == NearestFrom(points, bls, 1, [best_lead |-> -1, min_dist |-> 0])

\* the gate taken as inclusive
AssignedLeadInclusive(points, bls) ==
    LET b == Nearest(points, bls)
    IN  IF b.best_lead >= 0 /\ b.min_dist <= MaxDist * Len(points)
        THEN b.best_lead ELSE -1

\* line 101: the lead the path is appended to, -1 when it is dropped
AssignedLead(points, bls) ==
    LET b == Nearest(points, bls)
    IN  IF b.best_lead >= 0 /\ b.min_dist < MaxDist * Len(points)
        THEN b.best_lead ELSE -1

\* list.sort(key = x), a stable sort: element i goes to the position that
\* counts the elements of smaller x and the earlier elements of equal x
SortByX(s) ==
    LET n == Len(s)
        pos == {<<Cardinality({j \in 1 .. n : \/ X(s[j]) < X(s[i])
                                              \/ X(s[j]) = X(s[i]) /\ j <= i}), i>> :
                i \in 1 .. n}
    IN  [k \in 1 .. n |-> s[(CHOOSE p \in pos : p[1] = k)[2]]]

EmptyLeads == [li \in Leads |-> <<>>]

\* the body of the loop of lines 61-102 for one path
AddPath(leads, path, bls) ==
    IF ~ IsWaveformPath(path) THEN leads
    ELSE LET points == ExtractPoints(path.items)
         IN  IF points = <<>> THEN leads
             ELSE LET best == AssignedLead(points, bls)
                  IN  IF best >= 0
                      THEN [leads EXCEPT ![best] = @ \o points]
                      ELSE leads

RECURSIVE CollectFrom(_, _, _, _)
CollectFrom(paths, bls, k, leads) ==
    IF k > Len(paths) THEN leads
    ELSE CollectFrom(paths, bls, k + 1, AddPath(leads, paths[k], bls))

\* the per-page sort left out
SortLeadsOmitted(leads) == leads

\* lines 104-106
SortLeads(leads) == [li \in Leads |-> SortByX(leads[li])]

extract_ecg_paths_from_page(paths, bls) ==
    SortLeads(CollectFrom(paths, bls, 1, EmptyLeads))

\* ------------------------------------------------------------ points_to_voltage
\* (baseline_y - y) / cal_pt_per_mv: coordinates in 1/1000 pt over 28.346 pt/mV,
\* in microvolts, rounded down
points_to_voltage(points, baseline_y) ==
    [i \in 1 .. Len(points) |-> ((baseline_y - Y(points[i])) * 1000) \div CAL_PT_PER_MV]

\* ------------------------------------------------------------ main: deduplication
\* lines 153-156, for a non-empty list
\* a point exactly 0.01 away kept
DedupStepInclusive(deduped, p) ==
    IF Abs(X(p) - X(deduped[Len(deduped)])) >= DedupEps THEN Append(deduped, p) ELSE deduped

\* lines 155-156
DedupStep(deduped, p) ==
    IF Abs(X(p) - X(deduped[Len(deduped)])) > DedupEps THEN Append(deduped, p) ELSE deduped

\* lines 154-156: the loop over points lo..hi, run as the loop over the first
\* half followed by the loop over the second half (deduped is never empty:
\* the test on `first` only makes the first half be evaluated first)
RECURSIVE DedupRange(_, _, _, _)
DedupRange(points, lo, hi, deduped) ==
    IF lo > hi THEN deduped
    ELSE IF lo = hi THEN DedupStep(deduped, points[lo])
    ELSE LET mid == (lo + hi) \div 2
             first == DedupRange(points, lo, mid, deduped)
         IN  IF Len(first) >= 1
             THEN DedupRange(points, mid + 1, hi, first)
             ELSE first

Dedup(points) == DedupRange(points, 2, Len(points), <<points[1]>>)

\* ------------------------------------------------------------ the document
\* page.get_drawings(): a page is a list of path descriptors, expanded here
\* into paths.  A "wave" is a polyline of n items stepping 1 pt in x from x0,
\* its y alternating y0, y0 + dy; item i > 1 starts `off` after the end of
\* item i - 1; its first `skip` items are curves.  A "grid" is n lines from x0,
\* line k at y0 + (k - 1) * dy, `span` long and rising by `off`; its first
\* `skip` lines are only 100 pt long.
WaveItem(d, i) ==
    LET a == <<d.x0 + (i - 1) * 1000 + (IF i > 1 THEN d.off ELSE 0), d.y0 + d.dy * ((i - 1) % 2)>>
        b == <<d.x0 + i * 1000, d.y0 + d.dy * (i % 2)>>
    IN  IF i <= d.skip THEN Curve(a, b) ELSE Line(a, b)

GridItem(d, k) ==
    LET y == d.y0 + (k - 1) * d.dy
    IN  Line(<<d.x0, y>>, <<d.x0 + (IF k <= d.skip THEN 100000 ELSE d.span), y + d.off>>)

PathOf(d) ==
    [color |-> d.color, width |-> d.width,
     items |-> [i \in 1 .. d.n |-> IF d.shape = "wave" THEN WaveItem(d, i) ELSE GridItem(d, i)]]

get_drawings(page) == [k \in 1 .. Len(page) |-> PathOf(page[k])]

Desc(shape, color, width, n, x0, y0, dy, off, span, skip) ==
    [shape |-> shape, color |-> color, width |-> width, n |-> n, x0 |-> x0,
     y0 |-> y0, dy |-> dy, off |-> off, span |-> span, skip |-> skip]

\* the printed grid: six lines 100 pt apart, 550 pt long
GridDesc == Desc("grid", Black, <<400>>, 6, 0, 100000, 100000, 0, 550000, 0)
BaseY(lead) == (lead + 1) * 100000

\* a tracing of `n` items for `lead`, starting at x0; lead 5 is a flat line
WaveDesc(lead, n, x0, off) ==
    Desc("wave", Black, <<400>>, n, x0, BaseY(lead) - 2000 * (lead + 1),
         IF lead = 5 THEN 0 ELSE 3000, off, 0, 0)

RECURSIVE WavesFor(_, _, _)
WavesFor(lead, kind, x0) ==
    IF lead >= NumLeads THEN <<>>
    ELSE (CASE kind = "no3" /\ lead = 3 -> <<>>
            [] kind = "long" /\ lead = 0 ->
                  <<WaveDesc(0, 50, x0 + 50000, 0), WaveDesc(0, 50, x0, 0)>>
            [] kind = "long" /\ lead = 1 -> <<WaveDesc(1, 50, x0, 5)>>
            [] kind = "long" /\ lead = 2 -> <<WaveDesc(2, 51, x0, 0)>>
            [] OTHER -> <<WaveDesc(lead, 50, x0, 0)>>)
         \o WavesFor(lead + 1, kind, x0)

PageOf(grid, kind, x0) ==
    (IF grid THEN <<GridDesc>> ELSE <<>>)
    \o (IF kind = "empty" THEN <<>> ELSE WavesFor(0, kind, x0))

\* page 1 is the reference page and the first tracing page
RefPages == {PageOf(TRUE, "full", 0), PageOf(TRUE, "no3", 0),
             PageOf(TRUE, "long", 0), PageOf(FALSE, "full", 0)}
\* a later page restarts at x = 0 (overlapping page 1) or continues to its right
LaterPages == {PageOf(TRUE, "empty", 0), PageOf(TRUE, "no3", 0),
               PageOf(TRUE, "full", 0), PageOf(TRUE, "full", 120000)}

\* ------------------------------------------------------------ main
VARIABLES pc, doc, doc_state, baselines, page_leads, all_leads, pg_idx, li,
          deduped, lead_voltages, min_len, edf, error

vars == <<pc, doc, doc_state, baselines, page_leads, all_leads, pg_idx, li,
          deduped, lead_voltages, min_len, edf, error>>

NoEdf == [created |-> FALSE, closed |-> FALSE, info |-> FALSE,
          headers |-> <<>>, written |-> FALSE, samples |-> <<>>]

Blank ==
    /\ doc_state = "unopened"
    /\ baselines = NoBaselines
    /\ page_leads = EmptyLeads
    /\ all_leads = EmptyLeads
    /\ pg_idx = 0
    /\ li = 0
    /\ deduped = <<>>
    /\ lead_voltages = EmptyLeads
    /\ min_len = 0
    /\ edf = NoEdf
    /\ error = "none"

Init ==
    /\ pc = "open"
    /\ doc \in {<<p1, p2, p3, p4>> : p1 \in RefPages, p2, p3 \in LaterPages,
                                     p4 \in LaterPages}
    /\ Blank

\* line 124
Open ==
    /\ pc = "open"
    /\ doc_state' = "open"
    /\ pc' = "baselines"
    /\ UNCHANGED <<deduped, doc, baselines, page_leads, all_leads, pg_idx, li,
                   lead_voltages, min_len, edf, error>>

\* lines 132-134, 139
Baselines ==
    /\ pc = "baselines"
    /\ baselines' = extract_baselines(get_drawings(doc[FirstPage]))
    /\ IF baselines'.none \/ baselines'.ys = <<>>
       THEN /\ pc' = "failed"
            /\ error' = "RuntimeError: Could not find baseline grid lines in PDF"
            /\ UNCHANGED pg_idx
       ELSE /\ pc' = "pages"
            /\ pg_idx' = FirstPage
            /\ UNCHANGED error
    /\ UNCHANGED <<deduped, doc, doc_state, page_leads, all_leads, li, lead_voltages,
                   min_len, edf>>

\* one iteration of the loop of lines 140-144
Extend(leads, more) == [l \in Leads |-> leads[l] \o more[l]]

Page ==
    /\ pc = "pages"
    /\ pg_idx <= LastPage
    /\ page_leads' = extract_ecg_paths_from_page(get_drawings(doc[pg_idx]), baselines.ys)
    /\ all_leads' = Extend(all_leads, page_leads')
    /\ pg_idx' = pg_idx + 1
    /\ pc' = IF pg_idx = LastPage THEN "close_doc" ELSE "pages"
    /\ UNCHANGED <<deduped, doc, doc_state, baselines, li, lead_voltages, min_len, edf, error>>

\* line 146
CloseDoc ==
    /\ pc = "close_doc"
    /\ doc_state' = "closed"
    /\ pc' = "convert"
    /\ li' = 0
    /\ UNCHANGED <<deduped, doc, baselines, page_leads, all_leads, pg_idx, lead_voltages,
                   min_len, edf, error>>

\* one iteration of the loop of lines 150-162; points[0] of an empty list raises
Convert ==
    /\ pc = "convert"
    /\ li < NumLeads
    /\ IF all_leads[li] = <<>>
       THEN /\ pc' = "failed"
            /\ error' = "IndexError: list index out of range"
            /\ UNCHANGED <<deduped, lead_voltages, li>>
       ELSE /\ deduped' = Dedup(all_leads[li])
            /\ lead_voltages' = [lead_voltages EXCEPT
                   ![li] = points_to_voltage(deduped', baselines.ys[li + 1])]
            /\ li' = li + 1
            /\ pc' = IF li = NumLeads - 1 THEN "align" ELSE "convert"
            /\ UNCHANGED error
    /\ UNCHANGED <<doc, doc_state, baselines, page_leads, all_leads, pg_idx, min_len, edf>>

RECURSIVE MinLenFrom(_, _)
MinLenFrom(v, l) ==
    IF l = NumLeads - 1 THEN Len(v[l])
    ELSE LET m == MinLenFrom(v, l + 1) IN IF Len(v[l]) < m THEN Len(v[l]) ELSE m

\* the last n samples kept instead of the first n
TruncateKeepsTail(v, n) == [l \in Leads |-> SubSeq(v[l], Len(v[l]) - n + 1, Len(v[l]))]

\* lines 165-167
Truncate(v, n) == [l \in Leads |-> SubSeq(v[l], 1, n)]

Align ==
    /\ pc = "align"
    /\ min_len' = MinLenFrom(lead_voltages, 0)
    /\ lead_voltages' = Truncate(lead_voltages, min_len')
    /\ pc' = "create"
    /\ UNCHANGED <<deduped, doc, doc_state, baselines, page_leads, all_leads, pg_idx, li, edf, error>>

\* lines 176-178: the constructor opens the output file for writing
CreateWriter ==
    /\ pc = "create"
    /\ edf' = [edf EXCEPT !.created = TRUE]
    /\ pc' = "info"
    /\ UNCHANGED <<deduped, doc, doc_state, baselines, page_leads, all_leads, pg_idx, li,
                   lead_voltages, min_len, error>>

\* lines 181-186
SetInfo ==
    /\ pc = "info"
    /\ edf' = [edf EXCEPT !.info = TRUE]
    /\ li' = 0
    /\ pc' = "channels"
    /\ UNCHANGED <<deduped, doc, doc_state, baselines, page_leads, all_leads, pg_idx,
                   lead_voltages, min_len, error>>

\* np.min, np.max of a non-empty array
MinOf(v) == CHOOSE m \in {v[k] : k \in 1 .. Len(v)} : \A k \in 1 .. Len(v) : m <= v[k]
MaxOf(v) == CHOOSE m \in {v[k] : k \in 1 .. Len(v)} : \A k \in 1 .. Len(v) : m >= v[k]

\* the margin left out
HeaderWithoutMargin(v) ==
    [phys_min |-> MinOf(v), phys_max |-> MaxOf(v),
     dig_min |-> DigitalMin, dig_max |-> DigitalMax]

\* lines 197-202
Header(v) ==
    [phys_min |-> MinOf(v) - Margin, phys_max |-> MaxOf(v) + Margin,
     dig_min |-> DigitalMin, dig_max |-> DigitalMax]

\* one iteration of the loop of lines 189-202
ConfigureChannel ==
    /\ pc = "channels"
    /\ li < NumLeads
    /\ edf' = [edf EXCEPT !.headers = Append(@, Header(lead_voltages[li]))]
    /\ li' = li + 1
    /\ pc' = IF li = NumLeads - 1 THEN "write" ELSE "channels"
    /\ UNCHANGED <<deduped, doc, doc_state, baselines, page_leads, all_leads, pg_idx,
                   lead_voltages, min_len, error>>

\* line 205
WriteSamples ==
    /\ pc = "write"
    /\ edf' = [edf EXCEPT !.written = TRUE,
                          !.samples = [l \in 1 .. NumLeads |-> lead_voltages[l - 1]]]
    /\ pc' = "close_edf"
    /\ UNCHANGED <<deduped, doc, doc_state, baselines, page_leads, all_leads, pg_idx, li,
                   lead_voltages, min_len, error>>

\* line 206
CloseWriter ==
    /\ pc = "close_edf"
    /\ edf' = [edf EXCEPT !.closed = TRUE]
    /\ pc' = "done"
    /\ UNCHANGED <<deduped, doc, doc_state, baselines, page_leads, all_leads, pg_idx, li,
                   lead_voltages, min_len, error>>

\* lines 176-206 run outside any try/finally: an exception raised by a
\* pyedflib call (the file cannot be created, the disk fills up while
\* it is written) ends main at that call
WriterRaises ==
    /\ pc \in {"create", "info", "channels", "write", "close_edf"}
    /\ pc' = "failed"
    /\ error' = "pyedflib error"
    /\ UNCHANGED <<deduped, doc, doc_state, baselines, page_leads, all_leads, pg_idx, li,
                   lead_voltages, min_len, edf>>

Next ==
    \/ Open
    \/ Baselines
    \/ Page
    \/ CloseDoc
    \/ Convert
    \/ Align
    \/ CreateWriter
    \/ SetInfo
    \/ ConfigureChannel
    \/ WriteSamples
    \/ CloseWriter
    \/ WriterRaises

Spec == Init /\ [][Next]_vars

\* ------------------------------------------------------------ the functions alone
\* Each function is also run alone, on pages and lists that cover the limits
\* of its conditions.
MaxPaths == 2
MaxLen == 4

PagesOf(descs) == UNION {[1 .. n -> descs] : n \in 0 .. MaxPaths}

Unused ==
    /\ doc_state = "unopened"
    /\ pg_idx = 0
    /\ li = 0
    /\ lead_voltages = EmptyLeads
    /\ min_len = 0
    /\ edf = NoEdf
    /\ error = "none"

\* candidate grid paths for extract_baselines
GridDescs ==
    {Desc("grid", Black, <<400>>, 6, 0, 100000, 100000, 0, 550000, 0),
     Desc("grid", Black, <<351>>, 7, 0, 700000, -100000, 9, 500001, 0),
     Desc("grid", Black, <<449>>, 7, 0, 110000, 100000, -9, 550000, 1),
     Desc("grid", Black, <<400>>, 6, 0, 120000, 100000, 0, 550000, 1),
     Desc("grid", Black, <<400>>, 6, 0, 130000, 100000, 0, 500000, 0),
     Desc("grid", Black, <<400>>, 6, 0, 140000, 100000, 10, 550000, 0),
     Desc("grid", Black, <<400>>, 5, 0, 150000, 100000, 0, 550000, 0),
     Desc("grid", Red, <<400>>, 6, 0, 160000, 100000, 0, 550000, 0),
     Desc("grid", None, <<400>>, 6, 0, 170000, 100000, 0, 550000, 0),
     Desc("grid", Black, None, 6, 0, 180000, 100000, 0, 550000, 0),
     Desc("grid", Black, <<350>>, 6, 0, 190000, 100000, 0, 550000, 0),
     Desc("grid", Black, <<450>>, 6, 0, 200000, 100000, 0, 550000, 0),
     Desc("wave", Black, <<400>>, 50, 0, 98000, 3000, 0, 0, 0)}

InitBaselines ==
    /\ pc = "call"
    /\ doc \in {<<p>> : p \in PagesOf(GridDescs)}
    /\ baselines = NoBaselines
    /\ page_leads = EmptyLeads
    /\ all_leads = EmptyLeads
    /\ deduped = <<>>
    /\ Unused

\* extract_baselines(page)
CallExtractBaselines ==
    /\ pc = "call"
    /\ baselines' = extract_baselines(get_drawings(doc[1]))
    /\ pc' = "returned"
    /\ UNCHANGED <<doc, doc_state, page_leads, all_leads, pg_idx, li, deduped,
                   lead_voltages, min_len, edf, error>>

SpecBaselines == InitBaselines /\ [][CallExtractBaselines]_vars

\* baselines with two equal values and two 60 pt apart
TestBaselines == <<100000, 160000, 160000, 300000, 400000, 500000>>

\* candidate tracing paths for extract_ecg_paths_from_page
WaveDescs ==
    {Desc("wave", Black, <<351>>, 50, 0, 98000, 3000, 0, 0, 0),
     Desc("wave", Red, <<400>>, 50, 10000, 98000, 3000, 0, 0, 0),
     Desc("wave", None, <<400>>, 50, 20000, 98000, 3000, 0, 0, 0),
     Desc("wave", Black, None, 50, 30000, 98000, 3000, 0, 0, 0),
     Desc("wave", Black, <<350>>, 50, 40000, 98000, 3000, 0, 0, 0),
     Desc("wave", Black, <<450>>, 50, 50000, 98000, 3000, 0, 0, 0),
     Desc("wave", Black, <<400>>, 49, 60000, 98000, 3000, 0, 0, 0),
     Desc("wave", Black, <<400>>, 50, 70000, 98000, 3000, 0, 0, 50),
     Desc("wave", Black, <<449>>, 50, 5000, 350000, 0, 0, 0, 0),
     Desc("wave", Black, <<400>>, 50, 15000, 349999, 0, 5, 0, 10),
     Desc("wave", Black, <<400>>, 50, 25000, 130000, 0, 0, 0, 0),
     Desc("wave", Black, <<400>>, 50, 35000, 160000, 0, 0, 0, 0),
     Desc("wave", Black, <<400>>, 50, 45000, 1500000, 0, 0, 0, 0)}

InitPage ==
    /\ pc = "call"
    /\ doc \in {<<p>> : p \in PagesOf(WaveDescs)}
    /\ baselines = [none |-> FALSE, ys |-> TestBaselines]
    /\ page_leads = EmptyLeads
    /\ all_leads = EmptyLeads
    /\ deduped = <<>>
    /\ Unused

\* extract_ecg_paths_from_page(page, baselines)
CallExtractPage ==
    /\ pc = "call"
    /\ page_leads' = extract_ecg_paths_from_page(get_drawings(doc[1]), baselines.ys)
    /\ pc' = "returned"
    /\ UNCHANGED <<doc, doc_state, baselines, all_leads, pg_idx, li, deduped,
                   lead_voltages, min_len, edf, error>>

SpecPage == InitPage /\ [][CallExtractPage]_vars

\* point lists for the deduplication loop: x from a few values 0.005, 0.01
\* and more apart, in any order; y numbers the points
DedupXs == {0, 5, 10, 21, 1000}
PointLists ==
    {[k \in 1 .. Len(xs) |-> <<xs[k], k>>] :
        xs \in UNION {[1 .. n -> DedupXs] : n \in 1 .. MaxLen}}

InitDedup ==
    /\ pc = "call"
    /\ doc = <<>>
    /\ baselines = NoBaselines
    /\ page_leads = EmptyLeads
    /\ all_leads \in {[EmptyLeads EXCEPT ![0] = s] : s \in PointLists}
    /\ deduped = <<>>
    /\ Unused

\* lines 151-156 for channel 0
CallDedup ==
    /\ pc = "call"
    /\ deduped' = Dedup(all_leads[0])
    /\ pc' = "returned"
    /\ UNCHANGED <<doc, doc_state, baselines, page_leads, all_leads, pg_idx, li,
                   lead_voltages, min_len, edf, error>>

SpecDedup == InitDedup /\ [][CallDedup]_vars

\* ------------------------------------------------------------ properties of main
Sorted(s) == \A k \in 1 .. Len(s) - 1 : X(s[k]) <= X(s[k + 1])
Descents(s) == Cardinality({k \in 1 .. Len(s) - 1 : X(s[k]) > X(s[k + 1])})
IsSuffix(t, s) == Len(t) <= Len(s) /\ SubSeq(s, Len(s) - Len(t) + 1, Len(s)) = t
Stitched == pg_idx = LastPage + 1
Terminated == pc \in {"done", "failed"}

\* C2 as stated: once pages 1..4 are concatenated, every channel's
\* accumulated point sequence is sorted ascending by x.
C2_StitchedSorted == Stitched => \A l \in Leads : Sorted(all_leads[l])

\* C2, amended: after each page, the page's own list is sorted ascending by x
\* and is the tail of the channel's accumulated sequence, which therefore
\* consists of at most one ascending run per page read so far; it is not
\* sorted again as a whole.
C2_SortedPerPage ==
    pg_idx >= FirstPage + 1 =>
        \A l \in Leads : /\ Sorted(page_leads[l])
                         /\ IsSuffix(page_leads[l], all_leads[l])
                         /\ Descents(all_leads[l]) <= pg_idx - FirstPage - 1

\* four overlapping pages: a channel with one descent at every page boundary
C2_Witness ==
    /\ Stitched
    /\ \E l \in Leads : ~ Sorted(all_leads[l]) /\ Descents(all_leads[l]) = LastPage - FirstPage

\* C3: when main has terminated, normally or by an exception, the document
\* is not left open and a created EdfWriter is closed.
C3_ResourcesReleased ==
    Terminated => /\ doc_state # "open"
                  /\ edf.created => edf.closed

\* C4: when main has terminated, the output file was never created or is
\* complete: 6 channel headers, the samples written, the writer closed.
C4_NoPartialOutput ==
    Terminated => \/ ~ edf.created
                  \/ Len(edf.headers) = NumLeads /\ edf.written /\ edf.closed

\* the condition an error message names
Names(e) ==
    CASE e = "RuntimeError: Could not find baseline grid lines in PDF" -> "baseline not found"
      [] e = "IndexError: list index out of range" -> "nothing"
      [] OTHER -> "other"

\* C5: a missing baseline ends the run at once with an error naming it; a
\* channel with no point after pages 1..4 ends the run, before alignment and
\* the writer, with an error naming the empty channel.
C5_FatalConditionsNamed ==
    /\ (pc # "baselines" /\ pc # "open" /\ baselines.none) =>
          /\ pc = "failed"
          /\ Names(error) = "baseline not found"
          /\ all_leads = EmptyLeads /\ min_len = 0 /\ ~ edf.created
    /\ (Stitched /\ \E l \in Leads : all_leads[l] = <<>>) =>
          /\ pc \in {"close_doc", "convert", "failed"}
          /\ min_len = 0 /\ ~ edf.created
          /\ pc = "failed" => Names(error) = "empty channel"

\* the voltage series of channel l before alignment
VoltageSeries(l) == points_to_voltage(Dedup(all_leads[l]), baselines.ys[l + 1])
ShortestDeduped ==
    LET lens == {Len(Dedup(all_leads[l])) : l \in Leads}
    IN  CHOOSE n \in lens : \A m \in lens : n <= m

\* C9: every channel handed to writeSamples has the length of the shortest
\* deduplicated channel and is the prefix of that length of its voltage series.
C9_AlignedPrefix ==
    edf.written =>
        LET n == ShortestDeduped
        IN  \A l \in Leads : /\ Len(edf.samples[l + 1]) = n
                             /\ edf.samples[l + 1] = SubSeq(VoltageSeries(l), 1, n)

\* samples written, one channel cut, its last samples differing from its first
C9_Witness ==
    /\ edf.written
    /\ LET n == ShortestDeduped
       IN  \E l \in Leads :
              LET v == VoltageSeries(l)
              IN  Len(v) > n /\ SubSeq(v, 1, n) # SubSeq(v, Len(v) - n + 1, Len(v))

\* C10: every configured channel has physical minimum = data minimum - 0.1 mV
\* and physical maximum = data maximum + 0.1 mV, hence a range of at least
\* 0.2 mV: the range is never degenerate.
C10_PhysicalRange ==
    \A k \in 1 .. Len(edf.headers) :
        LET v == lead_voltages[k - 1]
            h == edf.headers[k]
        IN  /\ \E i \in 1 .. Len(v) : v[i] = h.phys_min + 100
            /\ \E i \in 1 .. Len(v) : v[i] = h.phys_max - 100
            /\ \A i \in 1 .. Len(v) : h.phys_min + 100 <= v[i] /\ v[i] <= h.phys_max - 100
            /\ h.phys_max - h.phys_min >= 200

\* a flat channel has been configured
C10_Witness ==
    \E k \in 1 .. Len(edf.headers) :
        /\ Len(lead_voltages[k - 1]) >= 2
        /\ \A i \in 1 .. Len(lead_voltages[k - 1]) : lead_voltages[k - 1][i] = lead_voltages[k - 1][1]
        /\ edf.headers[k].phys_max - edf.headers[k].phys_min = 200

\* ------------------------------------------------------------ properties of the functions
Returned == pc = "returned"
ThePaths == get_drawings(doc[1])

\* the path test of C6, from its words
C6_Candidate(path) ==
    /\ path.color = <<0, 0, 0>>
    /\ path.width # None
    /\ path.width[1] > 350 /\ path.width[1] < 450
    /\ Len(path.items) >= 6
C6_LongLines(path) ==
    {k \in 1 .. Len(path.items) :
        /\ path.items[k].op = "l"
        /\ Abs(path.items[k].p1[2] - path.items[k].p2[2]) < 10
        /\ Abs(path.items[k].p2[1] - path.items[k].p1[1]) > 500000}
C6_Qualifies(path) == C6_Candidate(path) /\ Cardinality(C6_LongLines(path)) >= 6
\* the k-th long line of the path, in item order
C6_Nth(path, k) ==
    CHOOSE j \in C6_LongLines(path) : Cardinality({q \in C6_LongLines(path) : q <= j}) = k

Contributions(paths, Q(_), lead(_)) ==
    {LET points == ExtractPoints(paths[k].items)
     IN  <<k, IF Q(paths[k]) /\ points # <<>> THEN lead(points) ELSE -1, points>> :
     k \in 1 .. Len(paths)}

\* the points contributed to channel l, joined in path order
RECURSIVE Joined(_, _, _)
Joined(C, l, k) ==
    IF k > Cardinality(C) THEN <<>>
    ELSE LET c == CHOOSE c \in C : c[1] = k
         IN  (IF c[2] = l THEN c[3] ELSE <<>>) \o Joined(C, l, k + 1)

CodeLead(points) == AssignedLead(points, baselines.ys)

\* the classification of C1 as stated
C1_NotBlack(path) ==
    /\ path.color # <<0, 0, 0>>
    /\ path.width # None
    /\ path.width[1] > 350 /\ path.width[1] < 450
    /\ Len(path.items) >= 50

\* the classification the code applies
C1_IsBlack(path) ==
    /\ path.color = <<0, 0, 0>>
    /\ path.width # None
    /\ path.width[1] > 350 /\ path.width[1] < 450
    /\ Len(path.items) >= 50

\* C1 as stated: the channels hold the points of exactly the paths that are
\* not pure black, of width in (0.35, 0.45) and of at least 50 items.
C1_AcceptsNonBlack ==
    Returned =>
        LET C == Contributions(ThePaths, C1_NotBlack, CodeLead)
        IN  \A l \in Leads : page_leads[l] = SortByX(Joined(C, l, 1))

\* C1, amended: the channels hold the points of exactly the paths that ARE
\* pure black, of width in (0.35, 0.45) and of at least 50 items; every other
\* path contributes no point.
C1_AcceptsBlack ==
    Returned =>
        LET C == Contributions(ThePaths, C1_IsBlack, CodeLead)
        IN  \A l \in Leads : page_leads[l] = SortByX(Joined(C, l, 1))

\* a page with an accepted black path and a rejected non-black one
C1_Witness ==
    /\ Returned
    /\ Len(ThePaths) = 2
    /\ C1_IsBlack(ThePaths[1]) /\ C1_NotBlack(ThePaths[2])
    /\ \E l \in Leads : page_leads[l] = ExtractPoints(ThePaths[1].items)

\* the assignment of C7, from its words: the lowest index among the baselines
\* nearest to the mean y, if that distance is below 50, else no channel (-1)
C7_Lead(points) ==
    LET n == Len(points)
        sum == SumY(points, 1, n)
        d(k) == Abs(sum - n * baselines.ys[k])
        best == CHOOSE k \in 1 .. 6 :
                    /\ \A j \in 1 .. 6 : d(k) <= d(j)
                    /\ \A j \in 1 .. k - 1 : d(j) > d(k)
    IN  IF d(best) < 50000 * n THEN best - 1 ELSE -1

\* C7: each qualifying path with a point goes whole to the channel of C7_Lead,
\* or to none.
C7_NearestBaseline ==
    Returned =>
        LET C == Contributions(ThePaths, IsWaveformPath, C7_Lead)
        IN  \A l \in Leads : page_leads[l] = SortByX(Joined(C, l, 1))

\* a path halfway between two baselines 60 pt apart went to the lower index,
\* and a path exactly 50 pt from its nearest baselines was dropped
C7_Witness ==
    /\ Returned
    /\ Len(ThePaths) = 2
    /\ IsWaveformPath(ThePaths[1]) /\ IsWaveformPath(ThePaths[2])
    /\ LET p == ExtractPoints(ThePaths[1].items)
           q == ExtractPoints(ThePaths[2].items)
       IN  /\ p # <<>> /\ q # <<>>
           /\ DistTimesN(p, baselines.ys[1]) = DistTimesN(p, baselines.ys[2])
           /\ page_leads[0] = p
           /\ DistTimesN(q, baselines.ys[4]) = 50000 * Len(q)
           /\ DistTimesN(q, baselines.ys[5]) = 50000 * Len(q)
           /\ \A l \in Leads \ {0} : page_leads[l] = <<>>

\* C8: the deduplication loop keeps the first point, leaves no two
\* consecutive points within 0.01 in x, and run on its own output returns it
\* unchanged, whatever the order of the input.
C8_DedupIdempotent ==
    Returned =>
        /\ deduped[1] = all_leads[0][1]
        /\ \A k \in 1 .. Len(deduped) - 1 : Abs(deduped[k + 1][1] - deduped[k][1]) > 10
        /\ Dedup(deduped) = deduped

\* an unsorted list lost a point and kept more than one
C8_Witness ==
    /\ Returned
    /\ ~ Sorted(all_leads[0])
    /\ Len(deduped) >= 2
    /\ Len(deduped) < Len(all_leads[0])

====
